---- MODULE Spec2Model ----
(***************************************************************************)
(* Pace-projection and anomaly-detection engine of the NBA dashboard.      *)
(*                                                                         *)
(* Two variants of the App component carry the engine:                     *)
(*   detectAnomalies    (rule cascade, dedup, severity ranking)            *)
(*   calculateHotStats  (projection thresholds, top-15 list)               *)
(* Both are pure functions of a snapshot (currentPlayers, currentGames)    *)
(* whose result is published with a state setter.                          *)
(*                                                                         *)
(* Specifications:                                                         *)
(*   Spec       the engine on one snapshot                                 *)
(*   SpecApp    the refresh cycle of the App component (loadRealData)      *)
(*   SpecFetch  fetchLiveNbaData over one game followed in real time       *)
(*   SpecVoice  the VoiceAssistant session and its playback scheduling     *)
(*                                                                         *)
(* Numbers.  Minutes played and elapsed minutes are whole minutes here;    *)
(* every ratio test of the source (pts / m > 0.8 ...) is the equivalent    *)
(* cross-multiplied integer test, and Math.round(x) is floor(x + 1/2).     *)
(* A player id is an integer; the dedup key playerId + statType (string    *)
(* concatenation, every statType has three characters, so the key is       *)
(* injective) is the pair <<playerId, statType>>.                          *)
(***************************************************************************)
EXTENDS Integers, Sequences, FiniteSets, TLC

VARIABLES
    currentPlayers,   \* argument of detectAnomalies / calculateHotStats
    currentGames,     \* argument of detectAnomalies / calculateHotStats
    detected,         \* detectAnomalies: the candidate array before dedup
    projCalls,        \* detectAnomalies: log of getProj evaluations <<player index, val>>
    anomalies,        \* App state set by setAnomalies
    ranAnomalies,     \* detectAnomalies has returned for this snapshot
    hotStats,         \* App state set by setHotStats
    ranHot,           \* calculateHotStats has returned for this snapshot
    appVariant,       \* which App component is built: "anomalies" or "hot"
    loading,          \* App state set by setLoading (latest value)
    errorMsg,         \* App state set by setErrorMsg
    games,            \* App state set by setGames
    players,          \* App state set by setPlayers
    renderedLoading,  \* loading as seen by the committed render (button, its closure)
    effectsDue,       \* a commit changed loadRealData and its effects have not run yet
    timerSet,         \* the polling interval is registered
    timerLoading,     \* loading captured by the loadRealData the interval calls
    hasFetchedRef,    \* hasFetchedRef.current
    pending,          \* refreshes whose fetchLiveNbaData has not resolved
    started,          \* number of refreshes started so far
    engineLog,        \* engine invocations: refresh, arguments, result
    doneLog,          \* resolved fetches: refresh and what the fetch returned
    clock,            \* the real game: status, period, whole minutes left in it
    served,           \* games returned by successive fetchLiveNbaData calls
    fetchError,       \* error of the last fetchLiveNbaData call
    isActive,         \* VoiceAssistant state set by setIsActive
    isConnecting,     \* VoiceAssistant state set by setIsConnecting
    voiceError,       \* VoiceAssistant state set by setError
    refs,             \* streamRef, inputAudioContextRef, audioContextRef, processorRef:
                      \*   the session each resource belongs to, 0 for null
    micPending,       \* startSession calls awaiting getUserMedia
    conn,             \* state of each session's live connection
    sessions,         \* number of startSession calls so far
    stopSeen,         \* stopSession ran and startSession was not called since
    audioNow,         \* currentTime of the output AudioContext in use
    nextStartTimeRef, \* nextStartTimeRef.current
    received,         \* number of audio messages received so far
    decoding,         \* onmessage handlers awaiting decodeAudioData
    scheduled         \* source.start calls, in the order they were made

engineVars == <<currentPlayers, currentGames, detected, projCalls, anomalies,
                ranAnomalies, hotStats, ranHot>>

appVars == <<appVariant, loading, errorMsg, games, players, renderedLoading,
             effectsDue, timerSet, timerLoading, hasFetchedRef, pending, started,
             engineLog, doneLog>>

fetchVars == <<clock, served, fetchError>>

voiceVars == <<isActive, isConnecting, voiceError, refs, micPending, conn, sessions,
               stopSeen, audioNow, nextStartTimeRef, received, decoding, scheduled>>

vars == <<engineVars, appVars, fetchVars, voiceVars>>

----------------------------------------------------------------------------
(* Bounds of the explored snapshots *)

MaxPlayers == 3     \* longest roster snapshot (ids may repeat)
MaxCrowd == 6       \* longest crowd snapshot (ids distinct)
MaxRaw == 30        \* largest raw stat value fed to the projection helpers
MaxRefresh == 3     \* refreshes started in one run of the App component
MaxServed == 3      \* fetchLiveNbaData calls followed for one game
MaxPeriod == 5      \* last period the followed game can reach (5 = one overtime)
MaxSessions == 2    \* startSession calls in one run of the voice assistant
MaxChunks == 2      \* audio messages received in one run
MaxClock == 3       \* last reading of the output audio clock

----------------------------------------------------------------------------
(* Generic helpers *)

Max(a, b) == IF a >= b THEN a ELSE b
Min(a, b) == IF a <= b THEN a ELSE b

\* Infinity and NaN: what a division by zero yields in the source language
NonFinite == 0 - 1

\* Math.round of the non-negative rational num / den
Round(num, den) == IF den = 0 THEN NonFinite ELSE (2 * num + den) \div (2 * den)

RECURSIVE Flatten(_)
Flatten(ss) == IF ss = <<>> THEN <<>> ELSE Head(ss) \o Flatten(Tail(ss))

----------------------------------------------------------------------------
(* Game lookup *)

NoGame == [id |-> "none", status |-> "NONE", elapsedMinutes |-> 0]

\* new Map(currentGames.map(g => [g.id, g])).has(gid)
HasGame(gs, gid) == \E k \in 1..Len(gs) : gs[k].id = gid

\* gamesMap.get(gid): a later entry with the same id replaces an earlier one
gamesMapGet(gs, gid) ==
    IF HasGame(gs, gid)
    THEN gs[CHOOSE k \in 1..Len(gs) :
                /\ gs[k].id = gid
                /\ \A j \in (k + 1)..Len(gs) : gs[j].id # gid]
    ELSE NoGame

----------------------------------------------------------------------------
(* detectAnomalies *)

getSeverityVal(s) ==
    IF s = "EXTREME" THEN 4
    ELSE IF s = "HIGH" THEN 3
    ELSE IF s = "MEDIUM" THEN 2
    ELSE 1

\* variant: the elapsed time used without its 5-minute floor
gameElapsedNoFloor(p, gs) ==
    IF HasGame(gs, p.gameId) THEN gamesMapGet(gs, p.gameId).elapsedMinutes ELSE 1

\* gameElapsed = Math.max(game ? game.elapsedMinutes : 1, 5)
gameElapsed(p, gs) ==
    Max(IF HasGame(gs, p.gameId) THEN gamesMapGet(gs, p.gameId).elapsedMinutes ELSE 1, 5)

\* gameProgress = Math.min(gameElapsed / 48.0, 1.0), kept as its numerator over 48
gameProgress48(p, gs) == Min(gameElapsed(p, gs), 48)

\* variant: the operands of the division exchanged
getProjSwapped(val, p, gs) == Round(gameProgress48(p, gs), val * 48)

\* getProj = (val) => Math.round(val / gameProgress)
getProj(val, p, gs) == Round(val * 48, gameProgress48(p, gs))

\* pace = (val / Math.max(minutes, 1)) * 36, kept as numerator and denominator
createAnomaly(p, type, val, minutes, proj, desc, severity) ==
    [playerId |-> p.id, statType |-> type, value |-> val,
     pace |-> [num |-> val * 36, den |-> Max(minutes, 1)],
     projectedTotal |-> proj, severity |-> severity, description |-> desc,
     minuteOfGame |-> minutes]

\* variant: the three-pointer trigger tested before the points trigger
LowMinutesRulesSwapped(p, gs) ==
    LET m == p.minutes IN
    IF p.threePM >= 2 /\ m < 8
    THEN <<createAnomaly(p, "3PM", p.threePM, m, getProj(p.threePM, p, gs), "GATILHO_RAPIDO", "HIGH")>>
    ELSE IF p.pts > m /\ p.pts >= 5
    THEN <<createAnomaly(p, "PTS", p.pts, m, getProj(p.pts, p, gs), "MICRO_ONDAS", "HIGH")>>
    ELSE <<>>

\* 1. low-minutes rule ("Micro-ondas"), entered when m < 15 && m >= 2
LowMinutesRules(p, gs) ==
    LET m == p.minutes IN
    IF p.pts > m /\ p.pts >= 5
    THEN <<createAnomaly(p, "PTS", p.pts, m, getProj(p.pts, p, gs), "MICRO_ONDAS", "HIGH")>>
    ELSE IF p.threePM >= 2 /\ m < 8
    THEN <<createAnomaly(p, "3PM", p.threePM, m, getProj(p.threePM, p, gs), "GATILHO_RAPIDO", "HIGH")>>
    ELSE <<>>

\* 2. star rule, the else branch of the low-minutes test
\* variant: the elite cutoff taken as strictly above 30
StarPtsStrict(p, gs) ==
    LET m == p.minutes IN
    IF p.pts > 30
    THEN <<createAnomaly(p, "PTS", p.pts, m, getProj(p.pts, p, gs), "VOLUME_ELITE", "EXTREME")>>
    ELSE IF 10 * p.pts > 8 * m /\ p.pts >= 12
    THEN <<createAnomaly(p, "PTS", p.pts, m, getProj(p.pts, p, gs), "RITMO_FORTE", "HIGH")>>
    ELSE <<>>

StarPts(p, gs) ==
    LET m == p.minutes IN
    IF p.pts >= 30
    THEN <<createAnomaly(p, "PTS", p.pts, m, getProj(p.pts, p, gs), "VOLUME_ELITE", "EXTREME")>>
    ELSE IF 10 * p.pts > 8 * m /\ p.pts >= 12
    THEN <<createAnomaly(p, "PTS", p.pts, m, getProj(p.pts, p, gs), "RITMO_FORTE", "HIGH")>>
    ELSE <<>>

\* variant: the pace rule is tested whether or not the cutoff rule fired
StarAstBoth(p, gs) ==
    LET m == p.minutes IN
    (IF p.ast >= 10
     THEN <<createAnomaly(p, "AST", p.ast, m, getProj(p.ast, p, gs), "DOUBLE_DOUBLE_AST", "HIGH")>>
     ELSE <<>>)
    \o (IF 100 * p.ast > 35 * m /\ p.ast >= 5
        THEN <<createAnomaly(p, "AST", p.ast, m, getProj(p.ast, p, gs), "VISAO_ELITE", "MEDIUM")>>
        ELSE <<>>)

StarAst(p, gs) ==
    LET m == p.minutes IN
    IF p.ast >= 10
    THEN <<createAnomaly(p, "AST", p.ast, m, getProj(p.ast, p, gs), "DOUBLE_DOUBLE_AST", "HIGH")>>
    ELSE IF 100 * p.ast > 35 * m /\ p.ast >= 5
    THEN <<createAnomaly(p, "AST", p.ast, m, getProj(p.ast, p, gs), "VISAO_ELITE", "MEDIUM")>>
    ELSE <<>>

StarReb(p, gs) ==
    LET m == p.minutes IN
    IF p.reb >= 12
    THEN <<createAnomaly(p, "REB", p.reb, m, getProj(p.reb, p, gs), "DOMINANDO_TABUA", "HIGH")>>
    ELSE IF 10 * p.reb > 4 * m /\ p.reb >= 6
    THEN <<createAnomaly(p, "REB", p.reb, m, getProj(p.reb, p, gs), "ALTA_TAXA_REB", "MEDIUM")>>
    ELSE <<>>

\* the value of a stat field the record does not carry
Undefined == 0 - 2

\* variant: x >= n written as !(x < n)
JsGeNotLess(x, n) == ~(x # Undefined /\ x < n)

\* x >= n of the source language: false when x is undefined (NaN comparison)
JsGe(x, n) == x # Undefined /\ x >= n

StarStl(p, gs) ==
    IF JsGe(p.stl, 4)
    THEN <<createAnomaly(p, "STL", p.stl, p.minutes, getProj(p.stl, p, gs), "MAOS_RAPIDAS", "EXTREME")>>
    ELSE <<>>

StarRules(p, gs) == StarPts(p, gs) \o StarAst(p, gs) \o StarReb(p, gs) \o StarStl(p, gs)

\* 3. specialist alerts (any time)
SpecialistRules(p, gs) ==
    LET m == p.minutes
        threePart ==
            IF p.threePM >= 5
            THEN <<createAnomaly(p, "3PM", p.threePM, m, getProj(p.threePM, p, gs), "CHUVA_DE_3", "HIGH")>>
            ELSE <<>>
        blkPart ==
            IF JsGe(p.blk, 4)
            THEN <<createAnomaly(p, "BLK", p.blk, m, getProj(p.blk, p, gs), "PAREDE_HUMANA", "EXTREME")>>
            ELSE <<>>
    IN threePart \o blkPart

\* variant: the minutes filter lets one-minute samples through
DetectPlayerLooseFilter(p, gs) ==
    IF p.minutes < 1 THEN <<>>
    ELSE (IF p.minutes < 15 /\ p.minutes >= 2
          THEN LowMinutesRules(p, gs)
          ELSE StarRules(p, gs))
         \o SpecialistRules(p, gs)

\* variant: the specialist alerts nested in the star branch
DetectPlayerNestedSpecialist(p, gs) ==
    IF p.minutes < 2 THEN <<>>
    ELSE IF p.minutes < 15 /\ p.minutes >= 2
         THEN LowMinutesRules(p, gs)
         ELSE StarRules(p, gs) \o SpecialistRules(p, gs)

\* Body of currentPlayers.forEach(p => ...): the candidates pushed for p
DetectPlayer(p, gs) ==
    IF p.minutes < 2 THEN <<>>
    ELSE (IF p.minutes < 15 /\ p.minutes >= 2
          THEN LowMinutesRules(p, gs)
          ELSE StarRules(p, gs))
         \o SpecialistRules(p, gs)

DetectAll(ps, gs) == Flatten([i \in 1..Len(ps) |-> DetectPlayer(ps[i], gs)])

\* getProj is evaluated once per createAnomaly argument list
ProjCallsOf(ps, gs) ==
    Flatten([i \in 1..Len(ps) |->
        [k \in 1..Len(DetectPlayer(ps[i], gs)) |-> <<i, DetectPlayer(ps[i], gs)[k].value>>]])

DedupKey(d) == <<d.playerId, d.statType>>

\* uniqueMap.set(key, d) on a Map kept in insertion order
RECURSIVE uniqueMapSet(_, _)
uniqueMapSet(u, d) ==
    IF u = <<>> THEN <<d>>
    ELSE IF DedupKey(Head(u)) = DedupKey(d) THEN <<d>> \o Tail(u)
    ELSE <<Head(u)>> \o uniqueMapSet(Tail(u), d)

uniqueMapHas(u, d) == \E k \in 1..Len(u) : DedupKey(u[k]) = DedupKey(d)

uniqueMapGet(u, d) == u[CHOOSE k \in 1..Len(u) : DedupKey(u[k]) = DedupKey(d)]

\* variant: the first candidate of a key is kept whatever its severity
RECURSIVE DedupKeepFirst(_, _)
DedupKeepFirst(u, ds) ==
    IF ds = <<>> THEN u
    ELSE LET d == Head(ds) IN
         IF ~uniqueMapHas(u, d)
         THEN DedupKeepFirst(uniqueMapSet(u, d), Tail(ds))
         ELSE DedupKeepFirst(u, Tail(ds))

\* variant: a candidate of equal severity replaces the stored one
RECURSIVE DedupKeepLast(_, _)
DedupKeepLast(u, ds) ==
    IF ds = <<>> THEN u
    ELSE LET d == Head(ds) IN
         IF \/ ~uniqueMapHas(u, d)
            \/ getSeverityVal(d.severity) >= getSeverityVal(uniqueMapGet(u, d).severity)
         THEN DedupKeepLast(uniqueMapSet(u, d), Tail(ds))
         ELSE DedupKeepLast(u, Tail(ds))

\* detected.forEach(d => { if (!has || sev(d) > sev(get)) set })
RECURSIVE Dedup(_, _)
Dedup(u, ds) ==
    IF ds = <<>> THEN u
    ELSE LET d == Head(ds) IN
         IF \/ ~uniqueMapHas(u, d)
            \/ getSeverityVal(d.severity) > getSeverityVal(uniqueMapGet(u, d).severity)
         THEN Dedup(uniqueMapSet(u, d), Tail(ds))
         ELSE Dedup(u, Tail(ds))

\* variant: the comparator without its secondary key
AnomalyCmpSeverityOnly(a, b) == getSeverityVal(b.severity) - getSeverityVal(a.severity)

\* comparator of unique.sort(...)
AnomalyCmp(a, b) ==
    LET sDiff == getSeverityVal(b.severity) - getSeverityVal(a.severity) IN
    IF sDiff # 0 THEN sDiff ELSE b.value - a.value

\* Array.prototype.sort is stable: x goes before the first element it
\* strictly precedes (comparator < 0), after every element it ties with.
\* variant: an unstable sort, x placed before the elements it ties with
RECURSIVE InsertAnomalyBeforeTies(_, _)
InsertAnomalyBeforeTies(x, s) ==
    IF s = <<>> THEN <<x>>
    ELSE IF AnomalyCmp(x, Head(s)) <= 0 THEN <<x>> \o s
    ELSE <<Head(s)>> \o InsertAnomalyBeforeTies(x, Tail(s))

RECURSIVE InsertAnomaly(_, _)
InsertAnomaly(x, s) ==
    IF s = <<>> THEN <<x>>
    ELSE IF AnomalyCmp(x, Head(s)) < 0 THEN <<x>> \o s
    ELSE <<Head(s)>> \o InsertAnomaly(x, Tail(s))

RECURSIVE SortAnomalies(_)
SortAnomalies(s) ==
    IF s = <<>> THEN <<>>
    ELSE InsertAnomaly(s[Len(s)], SortAnomalies(SubSeq(s, 1, Len(s) - 1)))

\* the list handed to setAnomalies
Rank(ds) == SortAnomalies(Dedup(<<>>, ds))

----------------------------------------------------------------------------
(* calculateHotStats *)

HotStatsCap == 15

createHotStat(p, type, curr, proj, isProj) ==
    [playerId |-> p.id, statType |-> type, current |-> curr, projected |-> proj,
     diff |-> proj - curr, isProjection |-> isProj]

\* elapsed = Math.max(game.elapsedMinutes, 1)
hotElapsed(game) == Max(game.elapsedMinutes, 1)

\* stat * projectionFactor (1 when FINISHED, else 48 / elapsed) as the
\* rational projNum / projDen
projDen(game) == IF game.status = "FINISHED" THEN 1 ELSE hotElapsed(game)

projNum(stat, game) == IF game.status = "FINISHED" THEN stat ELSE stat * 48

\* Math.round(projPts), Math.round(projAst), Math.round(projReb)
projRounded(stat, game) == Round(projNum(stat, game), projDen(game))

\* Body of currentPlayers.forEach(p => ...) in calculateHotStats
HotPlayer(p, gs) ==
    IF ~HasGame(gs, p.gameId) THEN <<>>
    ELSE
    LET game == gamesMapGet(gs, p.gameId)
        elapsed == hotElapsed(game)
        isEarlyGame == elapsed < 5
        isFinished == game.status = "FINISHED"
        den == projDen(game)
        num(stat) == projNum(stat, game)
        live == ~isFinished /\ ~isEarlyGame
        ptsPart ==
            IF p.pts >= 25
            THEN <<createHotStat(p, "PTS", p.pts, p.pts, FALSE)>>
            ELSE IF live /\ num(p.pts) >= 30 * den /\ p.pts >= 6
            THEN <<createHotStat(p, "PTS", p.pts, projRounded(p.pts, game), TRUE)>>
            ELSE <<>>
        astPart ==
            IF p.ast >= 9
            THEN <<createHotStat(p, "AST", p.ast, p.ast, FALSE)>>
            ELSE IF live /\ num(p.ast) >= 12 * den /\ p.ast >= 3
            THEN <<createHotStat(p, "AST", p.ast, projRounded(p.ast, game), TRUE)>>
            ELSE <<>>
        rebPart ==
            IF p.reb >= 11
            THEN <<createHotStat(p, "REB", p.reb, p.reb, FALSE)>>
            ELSE IF live /\ num(p.reb) >= 14 * den /\ p.reb >= 4
            THEN <<createHotStat(p, "REB", p.reb, projRounded(p.reb, game), TRUE)>>
            ELSE <<>>
        threePart ==
            IF p.threePM >= 4
            THEN <<[playerId |-> p.id, statType |-> "PTS", current |-> p.pts,
                    projected |-> p.threePM, diff |-> 0, isProjection |-> FALSE]>>
            ELSE <<>>
    IN ptsPart \o astPart \o rebPart \o threePart

HotAll(ps, gs) == Flatten([i \in 1..Len(ps) |-> HotPlayer(ps[i], gs)])

\* comparator of hot.sort((a, b) => b.projected - a.projected)
HotCmp(a, b) == b.projected - a.projected

\* .slice(0, 15)
SliceCap(s) == SubSeq(s, 1, Min(Len(s), HotStatsCap))

RECURSIVE InsertHot(_, _)
InsertHot(x, s) ==
    IF s = <<>> THEN <<x>>
    ELSE IF HotCmp(x, Head(s)) < 0 THEN <<x>> \o s
    ELSE <<Head(s)>> \o InsertHot(x, Tail(s))

RECURSIVE SortHot(_)
SortHot(s) ==
    IF s = <<>> THEN <<>>
    ELSE InsertHot(s[Len(s)], SortHot(SubSeq(s, 1, Len(s) - 1)))

\* the list handed to setHotStats
HotRank(hs) == SliceCap(SortHot(hs))

----------------------------------------------------------------------------
(* Snapshots handed to the engine *)

Player(id, gid, m, pts, ast, reb, stl, blk, three) ==
    [id |-> id, gameId |-> gid, minutes |-> m, pts |-> pts, ast |-> ast,
     reb |-> reb, stl |-> stl, blk |-> blk, threePM |-> three]

Game(id, status, elapsed) == [id |-> id, status |-> status, elapsedMinutes |-> elapsed]

\* Box-score values on both sides of every threshold of the two engines
MinutesVals == {0, 1, 2, 6, 8, 14, 15, 20}
PtsVals == {0, 5, 8, 12, 25, 30}
AstVals == {0, 8, 10}
RebVals == {0, 9, 12}
StlVals == {0, 4}
BlkVals == {0, 4}
ThreeVals == {0, 2, 5}
\* elapsedMinutes as the ESPN source delivers it (period * 12, overtime included)
ElapsedVals == {0, 12, 24, 48, 60}

\* (a) one player with every combination of box-score values, whose game
\*     is LIVE or FINISHED at any elapsed time, or is absent from the list
SoloSnapshots ==
    { [players |-> <<Player(1, "g1", m, pts, ast, reb, stl, blk, three)>>, games |-> gs] :
        m \in MinutesVals, pts \in PtsVals, ast \in AstVals, reb \in RebVals,
        stl \in StlVals, blk \in BlkVals, three \in ThreeVals,
        gs \in {<<>>} \cup { <<Game("g1", st, e)>> : st \in {"LIVE", "FINISHED"}, e \in ElapsedVals } }

\* (b) rosters: up to MaxPlayers records over two player ids (an id may
\*     repeat, as when a player appears in two box scores), two games
RosterLines ==
    { Player(0, "g1", 1, 30, 0, 0, 0, 4, 0),
      Player(0, "g1", 6, 8, 0, 0, 0, 0, 0),
      Player(0, "g1", 6, 0, 0, 0, 0, 0, 5),
      Player(0, "g1", 20, 30, 0, 0, 4, 0, 0),
      Player(0, "g1", 20, 25, 8, 9, 0, 0, 0),
      Player(0, "g2", 30, 30, 10, 12, 0, 0, 0),
      Player(0, "g9", 20, 30, 0, 0, 0, 4, 0),
      Player(0, "g1", 20, 20, 0, 0, 0, 4, 5) }

RosterPlayers == { [l EXCEPT !.id = i] : l \in RosterLines, i \in {1, 2} }

RosterGames == <<Game("g1", "LIVE", 24), Game("g2", "FINISHED", 48)>>

RosterSnapshots ==
    { [players |-> ps, games |-> RosterGames] :
        ps \in UNION { [1..k -> RosterPlayers] : k \in 0..MaxPlayers } }

\* (c) crowds: up to MaxCrowd distinct players, enough entries to fill the list
CrowdLines ==
    { Player(0, "g2", 30, 30, 0, 0, 0, 0, 0),
      Player(0, "g1", 20, 20, 8, 8, 0, 0, 0),
      Player(0, "g1", 20, 8, 0, 0, 0, 0, 0) }

CrowdGames == <<Game("g2", "FINISHED", 48), Game("g1", "LIVE", 12)>>

CrowdSnapshots ==
    { [players |-> [i \in 1..Len(ls) |-> [ls[i] EXCEPT !.id = i]], games |-> CrowdGames] :
        ls \in UNION { [1..k -> CrowdLines] : k \in 0..MaxCrowd } }

\* (d) sparse records: steals and blocks present or absent from stats
SparseVals == {Undefined, 0, 4}

SparseSnapshots ==
    { [players |-> <<Player(1, "g1", m, pts, 0, 0, stl, blk, three)>>,
       games |-> <<Game("g1", "LIVE", 24)>>] :
        m \in {1, 8, 20}, pts \in {0, 30}, stl \in SparseVals, blk \in SparseVals,
        three \in {0, 5} }

Snapshots == SoloSnapshots \cup RosterSnapshots \cup CrowdSnapshots \cup SparseSnapshots

----------------------------------------------------------------------------
(* State machine *)

\* errorMsg of useState<string | null>(null); the error of a successful fetch
NullMsg == "null"

\* the App component before its first effects: the state of the useState and
\* useRef initialisers, first render committed, nothing started
AppMounted ==
    /\ loading = FALSE
    /\ errorMsg = NullMsg
    /\ games = <<>>
    /\ players = <<>>
    /\ renderedLoading = FALSE
    /\ effectsDue = TRUE
    /\ timerSet = FALSE
    /\ timerLoading = FALSE
    /\ hasFetchedRef = FALSE
    /\ pending = {}
    /\ started = 0
    /\ engineLog = <<>>
    /\ doneLog = <<>>

\* a game before tip-off, nothing fetched yet
BeforeTipOff ==
    /\ clock = [status |-> "SCHEDULED", period |-> 0, left |-> 0]
    /\ served = <<>>
    /\ fetchError = NullMsg

\* the four resource refs, all null
NoRefs == [stream |-> 0, inputCtx |-> 0, outputCtx |-> 0, processor |-> 0]

\* the VoiceAssistant component after its first render, api key given
VoiceIdle ==
    /\ isActive = FALSE
    /\ isConnecting = FALSE
    /\ voiceError = NullMsg
    /\ refs = NoRefs
    /\ micPending = {}
    /\ conn = [s \in 1..MaxSessions |-> "none"]
    /\ sessions = 0
    /\ stopSeen = FALSE
    /\ audioNow = 0
    /\ nextStartTimeRef = 0
    /\ received = 0
    /\ decoding = {}
    /\ scheduled = <<>>

Init ==
    /\ appVariant = "anomalies"
    /\ AppMounted
    /\ BeforeTipOff
    /\ VoiceIdle
    /\ \E s \in Snapshots :
          /\ currentPlayers = s.players
          /\ currentGames = s.games
    /\ detected = <<>>
    /\ projCalls = <<>>
    /\ anomalies = <<>>
    /\ ranAnomalies = FALSE
    /\ hotStats = <<>>
    /\ ranHot = FALSE

\* detectAnomalies(currentPlayers, currentGames), setAnomalies included
detectAnomalies ==
    /\ ~ranAnomalies
    /\ detected' = DetectAll(currentPlayers, currentGames)
    /\ projCalls' = ProjCallsOf(currentPlayers, currentGames)
    /\ anomalies' = Rank(detected')
    /\ ranAnomalies' = TRUE
    /\ UNCHANGED <<currentPlayers, currentGames, hotStats, ranHot>>
    /\ UNCHANGED <<appVars, fetchVars>>
    /\ UNCHANGED voiceVars

\* calculateHotStats(currentPlayers, currentGames), setHotStats included
calculateHotStats ==
    /\ ~ranHot
    /\ hotStats' = HotRank(HotAll(currentPlayers, currentGames))
    /\ ranHot' = TRUE
    /\ UNCHANGED <<currentPlayers, currentGames, detected, projCalls, anomalies, ranAnomalies>>
    /\ UNCHANGED <<appVars, fetchVars>>
    /\ UNCHANGED voiceVars

Next == detectAnomalies \/ calculateHotStats

Spec == Init /\ [][Next]_vars

----------------------------------------------------------------------------
(* Refresh cycle of the App component: loadRealData, its three triggers     *)
(* (mount effect, polling interval, refresh button) and the continuation    *)
(* after the await.  loadRealData is a useCallback over [loading, API_KEY]: *)
(* each caller holds the closure of the render it was bound in, the button  *)
(* the one of the committed render, the interval the one of the last run of *)
(* its effect.                                                              *)

\* order[a.status] of the comparator of newGames.sort
statusOrder(st) ==
    CASE st = "LIVE" -> 0
      [] st = "FINISHED" -> 1
      [] OTHER -> 2

gameCmp(a, b) == statusOrder(a.status) - statusOrder(b.status)

RECURSIVE InsertGame(_, _)
\* stable insertion of g into the sorted list s
InsertGame(s, g) ==
    IF s = <<>> THEN <<g>>
    ELSE IF gameCmp(s[Len(s)], g) <= 0 THEN Append(s, g)
    ELSE Append(InsertGame(SubSeq(s, 1, Len(s) - 1), g), s[Len(s)])

RECURSIVE sortGames(_)
\* newGames.sort((a, b) => order[a.status] - order[b.status])
sortGames(gs) ==
    IF gs = <<>> THEN <<>>
    ELSE InsertGame(sortGames(SubSeq(gs, 1, Len(gs) - 1)), gs[Len(gs)])

\* what fetchLiveNbaData resolves to: no source answered
FetchFailed == [games |-> <<>>, players |-> <<>>, error |-> "SEM_FONTE"]

\* a scoreboard with a finished game listed before a live one
FetchedTwoGames ==
    [games |-> <<Game("g2", "FINISHED", 48), Game("g1", "LIVE", 24)>>,
     players |-> <<Player(1, "g1", 20, 30, 0, 0, 0, 0, 0),
                   Player(2, "g2", 30, 30, 10, 12, 0, 0, 0)>>,
     error |-> NullMsg]

\* a scoreboard with one live game
FetchedOneGame ==
    [games |-> <<Game("g1", "LIVE", 12)>>,
     players |-> <<Player(1, "g1", 8, 12, 0, 0, 0, 0, 5)>>,
     error |-> NullMsg]

FetchResults == {FetchFailed, FetchedTwoGames, FetchedOneGame}

\* variant: the candidate array lives outside the function
FreshArrayKept(prev) == prev

\* const detected = [] / const hot = []: a new array at every invocation
FreshArray(prev) == <<>>

\* variant: the engine is called whatever the fetch returned
invokesEngineAlways(res) == TRUE

\* if (error) { setErrorMsg(error) } else { ... engine ... }
invokesEngine(res) == res.error = NullMsg

\* the engine called from the continuation: detectAnomalies in one App
\* component, calculateHotStats in the other (detected holds the local array)
engineCall(r, newPlayers, newGames) ==
    /\ currentPlayers' = newPlayers
    /\ currentGames' = newGames
    /\ IF appVariant = "anomalies"
       THEN /\ detected' = FreshArray(detected) \o DetectAll(newPlayers, newGames)
            /\ projCalls' = ProjCallsOf(newPlayers, newGames)
            /\ anomalies' = Rank(detected')
            /\ ranAnomalies' = TRUE
            /\ engineLog' = Append(engineLog,
                  [refresh |-> r, players |-> newPlayers, games |-> newGames,
                   result |-> anomalies'])
            /\ UNCHANGED <<hotStats, ranHot>>
       ELSE /\ detected' = FreshArray(detected) \o HotAll(newPlayers, newGames)
            /\ hotStats' = HotRank(detected')
            /\ ranHot' = TRUE
            /\ engineLog' = Append(engineLog,
                  [refresh |-> r, players |-> newPlayers, games |-> newGames,
                   result |-> hotStats'])
            /\ UNCHANGED <<projCalls, anomalies, ranAnomalies>>

\* loadRealData up to its await, called through a closure that captured
\* the value `captured` of loading
loadRealData(captured) ==
    IF captured
    THEN UNCHANGED <<loading, errorMsg, pending, started>>
    ELSE /\ loading' = TRUE
         /\ errorMsg' = NullMsg
         /\ started' = started + 1
         /\ pending' = pending \cup {started + 1}

\* the passive effects of the committed render: the mount effect (guarded by
\* hasFetchedRef) and the interval effect, both holding that render's
\* loadRealData
FlushEffects ==
    /\ effectsDue
    /\ effectsDue' = FALSE
    /\ timerSet' = TRUE
    /\ timerLoading' = renderedLoading
    /\ hasFetchedRef' = TRUE
    /\ IF ~hasFetchedRef
       THEN loadRealData(renderedLoading)
       ELSE UNCHANGED <<loading, errorMsg, pending, started>>
    /\ UNCHANGED <<appVariant, games, players, renderedLoading, engineLog, doneLog>>
    /\ UNCHANGED <<engineVars, fetchVars>>
    /\ UNCHANGED voiceVars

\* the setInterval callback, 45 s (60 s) after the interval effect last ran,
\* when every earlier update has long been rendered: loadRealData of the
\* render the effect ran for; the update it schedules is rendered later
TimerTick ==
    /\ timerSet
    /\ renderedLoading = loading
    /\ ~effectsDue
    /\ started < MaxRefresh
    /\ loadRealData(timerLoading)
    /\ UNCHANGED <<appVariant, games, players, renderedLoading, effectsDue, timerSet,
                   timerLoading, hasFetchedRef, engineLog, doneLog>>
    /\ UNCHANGED <<engineVars, fetchVars>>
    /\ UNCHANGED voiceVars

\* onClick of the refresh button (disabled = {loading} of the committed
\* render); the update of a click is rendered before the event returns
Click ==
    /\ ~renderedLoading
    /\ ~effectsDue
    /\ started < MaxRefresh
    /\ loadRealData(renderedLoading)
    /\ renderedLoading' = loading'
    /\ effectsDue' = (renderedLoading' # renderedLoading)
    /\ UNCHANGED <<appVariant, games, players, timerSet, timerLoading, hasFetchedRef,
                   engineLog, doneLog>>
    /\ UNCHANGED <<engineVars, fetchVars>>
    /\ UNCHANGED voiceVars

\* a scheduled re-render commits: the button and the next effects get the
\* loadRealData of the current loading (effects of the previous commit have run)
Render ==
    /\ renderedLoading # loading
    /\ ~effectsDue
    /\ renderedLoading' = loading
    /\ effectsDue' = TRUE
    /\ UNCHANGED <<appVariant, loading, errorMsg, games, players, timerSet, timerLoading,
                   hasFetchedRef, pending, started, engineLog, doneLog>>
    /\ UNCHANGED <<engineVars, fetchVars>>
    /\ UNCHANGED voiceVars

\* variant: the error branch returns before the final setLoading
loadingAfterEarlyReturn(res, cur) == IF res.error # NullMsg THEN cur ELSE FALSE

\* setLoading(false) at the end of loadRealData, after either branch
loadingAfter(res, cur) == FALSE

\* fetchLiveNbaData of refresh r resolves to res: the rest of loadRealData
FetchComplete(r, res) ==
    /\ r \in pending
    /\ pending' = pending \ {r}
    /\ doneLog' = Append(doneLog, [refresh |-> r, result |-> res])
    /\ errorMsg' = IF res.error # NullMsg THEN res.error ELSE errorMsg
    /\ IF invokesEngine(res)
       THEN /\ games' = sortGames(res.games)
            /\ players' = res.players
            /\ engineCall(r, res.players, sortGames(res.games))
       ELSE /\ UNCHANGED <<games, players, engineLog>>
            /\ UNCHANGED engineVars
    /\ loading' = loadingAfter(res, loading)
    /\ UNCHANGED <<appVariant, renderedLoading, effectsDue, timerSet, timerLoading,
                   hasFetchedRef, started>>
    /\ UNCHANGED fetchVars
    /\ UNCHANGED voiceVars

InitApp ==
    /\ appVariant \in {"anomalies", "hot"}
    /\ AppMounted
    /\ BeforeTipOff
    /\ VoiceIdle
    /\ currentPlayers = <<>>
    /\ currentGames = <<>>
    /\ detected = <<>>
    /\ projCalls = <<>>
    /\ anomalies = <<>>
    /\ ranAnomalies = FALSE
    /\ hotStats = <<>>
    /\ ranHot = FALSE

NextApp ==
    \/ FlushEffects
    \/ TimerTick
    \/ Click
    \/ Render
    \/ \E r \in 1..MaxRefresh, res \in FetchResults : FetchComplete(r, res)

SpecApp == InitApp /\ [][NextApp]_vars

\* the refresh cycle when every fetch promise settles: the continuation of a
\* pending refresh eventually runs
SpecAppSettles ==
    /\ SpecApp
    /\ \A r \in 1..MaxRefresh : WF_vars(\E res \in FetchResults : FetchComplete(r, res))

----------------------------------------------------------------------------
(* fetchLiveNbaData over one real game: the NBA CDN scoreboard first, the   *)
(* ESPN scoreboard as fallback.  The real clock is (status, period, whole   *)
(* minutes left in the period); each upstream reports it in its own format. *)

\* length of a period on the game clock the CDN reports against (12 - clock)
PeriodMinutes(p) == IF p <= 4 THEN 12 ELSE 5

\* clock readings followed inside a period: start, an intermediate one, end
ClockReadings(p) == {PeriodMinutes(p), PeriodMinutes(p) \div 2, 0}

\* the clocks that come next in real time
ClockAfter(c) ==
    IF c.status = "SCHEDULED" THEN {[status |-> "LIVE", period |-> 1, left |-> 12]}
    ELSE IF c.status = "FINISHED" THEN {}
    ELSE IF c.left > 0
    THEN {[c EXCEPT !.left = l] : l \in {x \in ClockReadings(c.period) : x < c.left}}
    ELSE IF c.period < 4
    THEN {[c EXCEPT !.period = c.period + 1, !.left = 12]}
    ELSE {[c EXCEPT !.status = "FINISHED"]}
         \cup (IF c.period < MaxPeriod
               THEN {[c EXCEPT !.period = c.period + 1, !.left = PeriodMinutes(c.period + 1)]}
               ELSE {})

\* gameClock of the CDN scoreboard ("PT06M00.00S" while playing, else ""):
\* the minutes as a one-element sequence, the empty string as <<>>
cdnGameClock(c) == IF c.status = "LIVE" THEN <<c.left>> ELSE <<>>

\* gameStatus of the CDN scoreboard: 1 = Scheduled, 2 = Live, 3 = Final
cdnGameStatus(c) ==
    CASE c.status = "SCHEDULED" -> 1
      [] c.status = "LIVE" -> 2
      [] OTHER -> 3

\* status.type.state of the ESPN scoreboard
espnState(c) ==
    CASE c.status = "SCHEDULED" -> "pre"
      [] c.status = "LIVE" -> "in"
      [] OTHER -> "post"

\* parseMinutes: 0 for an empty string, else the minutes of the clock
parseMinutes(minStr) == IF minStr = <<>> THEN 0 ELSE minStr[1]

\* the game fetchFromNbaCdn builds from a scoreboard entry
fetchFromNbaCdn(c) ==
    LET status == CASE cdnGameStatus(c) = 3 -> "FINISHED"
                    [] cdnGameStatus(c) = 2 -> "LIVE"
                    [] OTHER -> "SCHEDULED"
        quarter == c.period
        qElapsed == 12 - parseMinutes(cdnGameClock(c))
        elapsed == IF status = "FINISHED" THEN 48
                   ELSE IF status = "LIVE" THEN ((quarter - 1) * 12) + Max(0, qElapsed)
                   ELSE 0
    IN Game("g1", status, elapsed)

\* the game fetchFromEspn builds from a scoreboard event
fetchFromEspn(c) ==
    Game("g1",
         IF espnState(c) = "in" THEN "LIVE"
         ELSE IF espnState(c) = "post" THEN "FINISHED" ELSE "SCHEDULED",
         c.period * 12)

\* the real clock moves on
ClockAdvance ==
    /\ \E c \in ClockAfter(clock) : clock' = c
    /\ UNCHANGED <<served, fetchError>>
    /\ UNCHANGED <<engineVars, appVars>>
    /\ UNCHANGED voiceVars

\* one call of fetchLiveNbaData: the CDN answer if it has any, else the ESPN
\* answer if it has games, else the error
fetchLiveNbaData(cdnUp, espnUp) ==
    /\ Len(served) < MaxServed
    /\ IF cdnUp
       THEN /\ served' = Append(served, [source |-> "CDN", game |-> fetchFromNbaCdn(clock)])
            /\ fetchError' = NullMsg
       ELSE IF espnUp
       THEN /\ served' = Append(served, [source |-> "ESPN", game |-> fetchFromEspn(clock)])
            /\ fetchError' = NullMsg
       ELSE /\ served' = served
            /\ fetchError' = "SEM_FONTE"
    /\ UNCHANGED clock
    /\ UNCHANGED <<engineVars, appVars>>
    /\ UNCHANGED voiceVars

InitFetch ==
    /\ appVariant = "anomalies"
    /\ AppMounted
    /\ BeforeTipOff
    /\ VoiceIdle
    /\ currentPlayers = <<>>
    /\ currentGames = <<>>
    /\ detected = <<>>
    /\ projCalls = <<>>
    /\ anomalies = <<>>
    /\ ranAnomalies = FALSE
    /\ hotStats = <<>>
    /\ ranHot = FALSE

NextFetch ==
    \/ ClockAdvance
    \/ \E cdnUp, espnUp \in BOOLEAN : fetchLiveNbaData(cdnUp, espnUp)

SpecFetch == InitFetch /\ [][NextFetch]_vars

----------------------------------------------------------------------------
(* VoiceAssistant: startSession (microphone, audio contexts, live           *)
(* connection with its callbacks), stopSession, and the playback scheduling *)
(* of onmessage.  A resource ref holds the number of the session that       *)
(* created the resource, 0 when it is null.                                 *)

\* audioBuffer.duration of the chunk of message m on the audio clock: long and
\* short chunks alternate
ChunkDuration(m) == 1 + (m % 2)

\* variant: the chunk is started at nextStartTime whatever the clock reads
startTimeUnclamped(next, now) == next

\* startTime = Math.max(nextStartTimeRef.current, now)
startTimeOf(next, now) == Max(next, now)

\* the body of stopSession: state setters, every ref released, playback reset
\* (the live session itself is not closed)
stopSessionBody ==
    /\ isActive' = FALSE
    /\ isConnecting' = FALSE
    /\ refs' = NoRefs
    /\ nextStartTimeRef' = 0
    /\ stopSeen' = TRUE

\* click on the start button (shown while neither active nor connecting):
\* startSession up to its await of getUserMedia
startSession ==
    /\ ~isActive
    /\ ~isConnecting
    /\ sessions < MaxSessions
    /\ voiceError' = NullMsg
    /\ isConnecting' = TRUE
    /\ sessions' = sessions + 1
    /\ micPending' = micPending \cup {sessions + 1}
    /\ stopSeen' = FALSE
    /\ UNCHANGED <<isActive, refs, conn, audioNow, nextStartTimeRef, received, decoding,
                   scheduled>>
    /\ UNCHANGED <<engineVars, appVars, fetchVars>>

\* getUserMedia resolves: the refs are filled and the live connection is asked for
micGranted(s) ==
    /\ s \in micPending
    /\ micPending' = micPending \ {s}
    /\ refs' = [stream |-> s, inputCtx |-> s, outputCtx |-> s, processor |-> s]
    /\ audioNow' = 0
    /\ conn' = [conn EXCEPT ![s] = "connecting"]
    /\ UNCHANGED <<isActive, isConnecting, voiceError, sessions, stopSeen, nextStartTimeRef,
                   received, decoding, scheduled>>
    /\ UNCHANGED <<engineVars, appVars, fetchVars>>

\* getUserMedia rejects: the catch block
micDenied(s) ==
    /\ s \in micPending
    /\ micPending' = micPending \ {s}
    /\ voiceError' = "MICROFONE"
    /\ isConnecting' = FALSE
    /\ UNCHANGED <<isActive, refs, conn, sessions, stopSeen, audioNow, nextStartTimeRef,
                   received, decoding, scheduled>>
    /\ UNCHANGED <<engineVars, appVars, fetchVars>>

\* callbacks.onopen of session s
onopen(s) ==
    /\ conn[s] = "connecting"
    /\ conn' = [conn EXCEPT ![s] = "open"]
    /\ isConnecting' = FALSE
    /\ isActive' = TRUE
    /\ UNCHANGED <<voiceError, refs, micPending, sessions, stopSeen, audioNow,
                   nextStartTimeRef, received, decoding, scheduled>>
    /\ UNCHANGED <<engineVars, appVars, fetchVars>>

\* click on the close button (shown while active or connecting)
stopSession ==
    /\ isActive \/ isConnecting
    /\ stopSessionBody
    /\ UNCHANGED <<voiceError, micPending, conn, sessions, audioNow, received, decoding,
                   scheduled>>
    /\ UNCHANGED <<engineVars, appVars, fetchVars>>

\* callbacks.onclose of session s
onclose(s) ==
    /\ conn[s] \in {"connecting", "open"}
    /\ conn' = [conn EXCEPT ![s] = "closed"]
    /\ stopSessionBody
    /\ UNCHANGED <<voiceError, micPending, sessions, audioNow, received, decoding, scheduled>>
    /\ UNCHANGED <<engineVars, appVars, fetchVars>>

\* callbacks.onerror of session s
onerror(s) ==
    /\ conn[s] \in {"connecting", "open"}
    /\ conn' = [conn EXCEPT ![s] = "closed"]
    /\ voiceError' = "CONEXAO"
    /\ stopSessionBody
    /\ UNCHANGED <<micPending, sessions, audioNow, received, decoding, scheduled>>
    /\ UNCHANGED <<engineVars, appVars, fetchVars>>

\* callbacks.onmessage of session s with an audio part, up to its await:
\* nothing when the output context ref is null
onmessage(s) ==
    /\ conn[s] = "open"
    /\ received < MaxChunks
    /\ received' = received + 1
    /\ decoding' = IF refs.outputCtx = 0 THEN decoding
                   ELSE decoding \cup {[msg |-> received + 1, session |-> s]}
    /\ UNCHANGED <<isActive, isConnecting, voiceError, refs, micPending, conn, sessions,
                   stopSeen, audioNow, nextStartTimeRef, scheduled>>
    /\ UNCHANGED <<engineVars, appVars, fetchVars>>

\* the promise of decodeAudioData settles for handler d, which goes on: a null
\* output context ref, or one of another session than the handler's
\* outputNode, throws into the catch; else the chunk is started and
\* nextStartTime moved to its end
decodeSettled(d) ==
    /\ d \in decoding
    /\ decoding' = decoding \ {d}
    /\ IF refs.outputCtx = 0 \/ refs.outputCtx # d.session
       THEN UNCHANGED <<nextStartTimeRef, scheduled>>
       ELSE LET startTime == startTimeOf(nextStartTimeRef, audioNow) IN
            /\ scheduled' = Append(scheduled,
                  [msg |-> d.msg, session |-> d.session, now |-> audioNow,
                   start |-> startTime, duration |-> ChunkDuration(d.msg)])
            /\ nextStartTimeRef' = startTime + ChunkDuration(d.msg)
    /\ UNCHANGED <<isActive, isConnecting, voiceError, refs, micPending, conn, sessions,
                   stopSeen, audioNow, received>>
    /\ UNCHANGED <<engineVars, appVars, fetchVars>>

\* the clock of the output context in use runs; its reading is observed only
\* when a handler resumes, so it is followed while one awaits
audioClockTick ==
    /\ refs.outputCtx # 0
    /\ decoding # {}
    /\ audioNow < MaxClock
    /\ audioNow' = audioNow + 1
    /\ UNCHANGED <<isActive, isConnecting, voiceError, refs, micPending, conn, sessions,
                   stopSeen, nextStartTimeRef, received, decoding, scheduled>>
    /\ UNCHANGED <<engineVars, appVars, fetchVars>>

InitVoice ==
    /\ appVariant = "anomalies"
    /\ AppMounted
    /\ BeforeTipOff
    /\ VoiceIdle
    /\ currentPlayers = <<>>
    /\ currentGames = <<>>
    /\ detected = <<>>
    /\ projCalls = <<>>
    /\ anomalies = <<>>
    /\ ranAnomalies = FALSE
    /\ hotStats = <<>>
    /\ ranHot = FALSE

NextVoice ==
    \/ startSession
    \/ stopSession
    \/ audioClockTick
    \/ \E s \in 1..MaxSessions :
          \/ micGranted(s)
          \/ micDenied(s)
          \/ onopen(s)
          \/ onclose(s)
          \/ onerror(s)
          \/ onmessage(s)
    \/ \E m \in 1..MaxChunks, s \in 1..MaxSessions :
          decodeSettled([msg |-> m, session |-> s])

SpecVoice == InitVoice /\ [][NextVoice]_vars

----------------------------------------------------------------------------
(* Vocabulary of the properties *)

PlayerIdx == 1..Len(currentPlayers)

SameId(i, j) == currentPlayers[i].id = currentPlayers[j].id

PlayerHasGame(i) == HasGame(currentGames, currentPlayers[i].gameId)

PlayerGame(i) == gamesMapGet(currentGames, currentPlayers[i].gameId)

\* positions of the alerts of a (playerId, statCategory) pair in the final list
AlertsOf(id, type) ==
    { k \in 1..Len(anomalies) : anomalies[k].playerId = id /\ anomalies[k].statType = type }

CandidatesOf(id) == { k \in 1..Len(detected) : detected[k].playerId = id }

\* positions of the entries of a (playerId, statType) pair in the hot list
HotOf(id, type) ==
    { k \in 1..Len(hotStats) : hotStats[k].playerId = id /\ hotStats[k].statType = type }

\* low-minutes regime with the points-per-minute trigger met
LowMinutesScorer(i) ==
    LET p == currentPlayers[i] IN
    p.minutes >= 2 /\ p.minutes < 15 /\ p.pts > p.minutes /\ p.pts >= 5

----------------------------------------------------------------------------
(* C1: after detectAnomalies, every (playerId, statCategory) pair for which *)
(* a rule fired has exactly one entry in the alert list, every entry is one *)
(* of the candidates, and the entry's severity is the highest severity any  *)
(* candidate of its pair carries.                                           *)
C1_OnePerPairMaxSeverity ==
    ranAnomalies =>
        /\ \A k \in 1..Len(detected) :
              /\ Cardinality(AlertsOf(detected[k].playerId, detected[k].statType)) = 1
              /\ \A a \in AlertsOf(detected[k].playerId, detected[k].statType) :
                    getSeverityVal(anomalies[a].severity) >= getSeverityVal(detected[k].severity)
        /\ \A a \in 1..Len(anomalies) : \E k \in 1..Len(detected) : detected[k] = anomalies[a]

\* two candidates of one pair, the later one of higher severity
C1_Witness ==
    /\ ranAnomalies
    /\ \E j, k \in 1..Len(detected) :
          /\ j < k
          /\ DedupKey(detected[j]) = DedupKey(detected[k])
          /\ getSeverityVal(detected[j].severity) < getSeverityVal(detected[k].severity)

(* C2: after calculateHotStats, no two entries of the hot list share the    *)
(* same (playerId, statType) pair.                                          *)
C2_HotPairsDistinct ==
    ranHot =>
        \A j, k \in 1..Len(hotStats) :
            (hotStats[j].playerId = hotStats[k].playerId
                /\ hotStats[j].statType = hotStats[k].statType) => j = k

(* C3: a record with fewer than 2 minutes played never reaches getProj, and *)
(* a player all of whose records are below 2 minutes has no candidate and   *)
(* no alert, whatever the other stats are.                                  *)
C3_GarbageTimeSkipped ==
    ranAnomalies =>
        \A i \in PlayerIdx :
            currentPlayers[i].minutes < 2 =>
                /\ \A c \in 1..Len(projCalls) : projCalls[c][1] # i
                /\ (\A j \in PlayerIdx : SameId(i, j) => currentPlayers[j].minutes < 2)
                      => /\ CandidatesOf(currentPlayers[i].id) = {}
                         /\ \A a \in 1..Len(anomalies) :
                               anomalies[a].playerId # currentPlayers[i].id

\* a one-minute record with elite numbers next to a record that did alert
C3_Witness ==
    /\ ranAnomalies
    /\ Len(anomalies) > 0
    /\ \E i \in PlayerIdx :
          /\ currentPlayers[i].minutes < 2
          /\ currentPlayers[i].pts >= 30
          /\ currentPlayers[i].blk >= 4

(* C4: every alert of a player whose game is FINISHED has projectedTotal    *)
(* equal to its raw value, whatever elapsedMinutes the game carries.        *)
C4_FinishedNotExtrapolated ==
    ranAnomalies =>
        \A a \in 1..Len(anomalies) :
            (\A i \in PlayerIdx :
                currentPlayers[i].id = anomalies[a].playerId
                    => PlayerHasGame(i) /\ PlayerGame(i).status = "FINISHED")
            => anomalies[a].projectedTotal = anomalies[a].value

(* C5: a player whose gameId is absent from the games list contributes no   *)
(* alert to either list: every alert belongs to a player with a record      *)
(* whose game is in the list.                                               *)
C5_MissingGameSkipped ==
    /\ ranAnomalies =>
          \A a \in 1..Len(anomalies) :
              \E i \in PlayerIdx :
                  currentPlayers[i].id = anomalies[a].playerId /\ PlayerHasGame(i)
    /\ ranHot =>
          \A h \in 1..Len(hotStats) :
              \E i \in PlayerIdx :
                  currentPlayers[i].id = hotStats[h].playerId /\ PlayerHasGame(i)

\* the pair (id, PTS) has exactly one alert, EXTREME, carrying the points of
\* an elite record of that player (its own points when the id occurs once)
ElitePtsAlert(i, cutoff) ==
    LET id == currentPlayers[i].id IN
    /\ Cardinality(AlertsOf(id, "PTS")) = 1
    /\ \A a \in AlertsOf(id, "PTS") :
          /\ anomalies[a].severity = "EXTREME"
          /\ \E j \in PlayerIdx :
                /\ SameId(i, j)
                /\ currentPlayers[j].pts >= cutoff
                /\ anomalies[a].value = currentPlayers[j].pts

LiveFullRegime(i) ==
    /\ PlayerHasGame(i)
    /\ PlayerGame(i).status = "LIVE"
    /\ currentPlayers[i].minutes >= 15

(* C6 as stated: in a LIVE game, a full-regime player with points >= 25 has *)
(* exactly one PTS alert, of severity EXTREME, whose raw value is the       *)
(* player's points.                                                         *)
C6_EliteAt25 ==
    ranAnomalies =>
        \A i \in PlayerIdx :
            (LiveFullRegime(i) /\ currentPlayers[i].pts >= 25) => ElitePtsAlert(i, 25)

(* C6 amended: in a LIVE game, a full-regime player with points >= 30 has   *)
(* exactly one PTS alert, of severity EXTREME, whose raw value is the       *)
(* player's points, whatever the projected total.                           *)
C6_EliteAt30 ==
    ranAnomalies =>
        \A i \in PlayerIdx :
            (LiveFullRegime(i) /\ currentPlayers[i].pts >= 30) => ElitePtsAlert(i, 30)

\* 30 points in 20 minutes of a LIVE game, projected beyond the raw value
C6_Witness ==
    /\ ranAnomalies
    /\ \E i \in PlayerIdx :
          /\ LiveFullRegime(i)
          /\ currentPlayers[i].pts = 30
          /\ \E a \in AlertsOf(currentPlayers[i].id, "PTS") :
                anomalies[a].projectedTotal > anomalies[a].value

(* C7 as stated: a player with blocks >= 4 has a BLK alert of severity      *)
(* EXTREME in the final list for any value of minutesPlayed.                *)
C7_BlocksAnyMinutes ==
    ranAnomalies =>
        \A i \in PlayerIdx :
            currentPlayers[i].blk >= 4 =>
                \E a \in AlertsOf(currentPlayers[i].id, "BLK") :
                    anomalies[a].severity = "EXTREME"

(* C7 amended: a player with blocks >= 4 and minutesPlayed >= 2 has a BLK   *)
(* alert of severity EXTREME in the final list, in the low-minutes regime   *)
(* as in the full regime.                                                   *)
C7_BlocksPastFilter ==
    ranAnomalies =>
        \A i \in PlayerIdx :
            (currentPlayers[i].blk >= 4 /\ currentPlayers[i].minutes >= 2) =>
                \E a \in AlertsOf(currentPlayers[i].id, "BLK") :
                    anomalies[a].severity = "EXTREME"

\* four blocks in the low-minutes regime
C7_Witness ==
    /\ ranAnomalies
    /\ \E i \in PlayerIdx :
          /\ currentPlayers[i].blk >= 4
          /\ currentPlayers[i].minutes >= 2
          /\ currentPlayers[i].minutes < 15

(* C8: a low-minutes player (2 <= minutes < 15) with points-per-minute      *)
(* above 1.0 and at least 5 points has exactly one PTS alert, carrying the  *)
(* low-minutes rationale, severity HIGH and the player's points (player:    *)
(* an id all of whose records are such low-minutes scorers).                *)
C8_LowMinutesPtsAlert ==
    ranAnomalies =>
        \A i \in PlayerIdx :
            (\A j \in PlayerIdx : SameId(i, j) => LowMinutesScorer(j)) =>
                /\ Cardinality(AlertsOf(currentPlayers[i].id, "PTS")) = 1
                /\ \A a \in AlertsOf(currentPlayers[i].id, "PTS") :
                      /\ anomalies[a].severity = "HIGH"
                      /\ anomalies[a].description = "MICRO_ONDAS"
                      /\ \E j \in PlayerIdx :
                            SameId(i, j) /\ anomalies[a].value = currentPlayers[j].pts

\* 8 points in 6 minutes with two threes made, LIVE game at minute 24
C8_Witness ==
    /\ ranAnomalies
    /\ \E i \in PlayerIdx :
          /\ currentPlayers[i].pts = 8
          /\ currentPlayers[i].minutes = 6
          /\ currentPlayers[i].threePM >= 2
          /\ PlayerHasGame(i)
          /\ PlayerGame(i).status = "LIVE"
          /\ PlayerGame(i).elapsedMinutes = 24

\* FINISHED-game record with exactly 30 points
FinishedThirty(i) ==
    /\ PlayerHasGame(i)
    /\ PlayerGame(i).status = "FINISHED"
    /\ currentPlayers[i].pts = 30

\* LIVE-game record below the actual cutoff whose points fire the projection rule
LiveProjecting(i) ==
    /\ PlayerHasGame(i)
    /\ PlayerGame(i).status = "LIVE"
    /\ PlayerGame(i).elapsedMinutes >= 5
    /\ currentPlayers[i].pts < 25
    /\ currentPlayers[i].pts >= 6
    /\ currentPlayers[i].pts * 48 >= 30 * PlayerGame(i).elapsedMinutes

OneFinishedOneLive ==
    /\ Len(currentGames) = 2
    /\ \E g \in 1..2 : currentGames[g].status = "FINISHED"
    /\ \E g \in 1..2 : currentGames[g].status = "LIVE"

(* C9: with one FINISHED and one LIVE game, a finished-game player with 30  *)
(* points and a live-game player whose points project to 30 or more both    *)
(* have a PTS entry in the hot list, the live one flagged isProjection and  *)
(* the finished one not; no entry of a player whose games are all FINISHED  *)
(* is flagged isProjection.                                                 *)
C9_FinishedAndLiveBothListed ==
    ranHot =>
        /\ OneFinishedOneLive =>
              \A i, j \in PlayerIdx :
                  (FinishedThirty(i) /\ LiveProjecting(j) /\ ~SameId(i, j)) =>
                      /\ \E h \in HotOf(currentPlayers[i].id, "PTS") :
                            ~hotStats[h].isProjection /\ hotStats[h].current = 30
                      /\ \E h \in HotOf(currentPlayers[j].id, "PTS") :
                            hotStats[h].isProjection
        /\ \A h \in 1..Len(hotStats) :
              (\A i \in PlayerIdx :
                  currentPlayers[i].id = hotStats[h].playerId
                      => PlayerHasGame(i) /\ PlayerGame(i).status = "FINISHED")
              => ~hotStats[h].isProjection

(* C10: the final alert list is ordered by descending severity tier and,    *)
(* among equal severities, by descending raw value.                         *)
C10_SortedBySeverityThenValue ==
    ranAnomalies =>
        \A k \in 1..(Len(anomalies) - 1) :
            \/ getSeverityVal(anomalies[k].severity) > getSeverityVal(anomalies[k + 1].severity)
            \/ /\ anomalies[k].severity = anomalies[k + 1].severity
               /\ anomalies[k].value >= anomalies[k + 1].value

\* candidates pushed in ascending order of severity and, within one severity,
\* of value: the sort has to move them
C10_Witness ==
    /\ ranAnomalies
    /\ Len(anomalies) >= 3
    /\ \E j, k \in 1..Len(detected) :
          /\ j < k
          /\ getSeverityVal(detected[j].severity) < getSeverityVal(detected[k].severity)
    /\ \E j, k \in 1..Len(detected) :
          /\ j < k
          /\ DedupKey(detected[j]) # DedupKey(detected[k])
          /\ detected[j].severity = detected[k].severity
          /\ detected[j].value < detected[k].value


\* position in detected of the first candidate of d's key at the key's top severity
FirstBest(d) ==
    CHOOSE k \in 1..Len(detected) :
        /\ DedupKey(detected[k]) = DedupKey(d)
        /\ \A j \in 1..Len(detected) :
              DedupKey(detected[j]) = DedupKey(d) =>
                  /\ getSeverityVal(detected[j].severity) <= getSeverityVal(detected[k].severity)
                  /\ j < k => getSeverityVal(detected[j].severity) < getSeverityVal(detected[k].severity)

(* C11: when several candidates of one (playerId, statCategory) key tie for *)
(* the highest severity, the alert list keeps the first-encountered of      *)
(* them: every alert is the earliest top-severity candidate of its key.     *)
C11_TieKeepsFirst ==
    ranAnomalies =>
        \A a \in 1..Len(anomalies) : anomalies[a] = detected[FirstBest(anomalies[a])]

\* five threes in under 8 minutes: the low-minutes 3PM candidate precedes the
\* specialist 3PM candidate of the same severity, and is the one listed
C11_Witness ==
    /\ ranAnomalies
    /\ \E j, k \in 1..Len(detected) :
          /\ j < k
          /\ DedupKey(detected[j]) = DedupKey(detected[k])
          /\ detected[j].severity = detected[k].severity
          /\ detected[j].description = "GATILHO_RAPIDO"
          /\ detected[k].description = "CHUVA_DE_3"
          /\ \E a \in 1..Len(anomalies) : anomalies[a] = detected[j]

(* C12: ranking is idempotent: the dedup-and-sort step applied to the list  *)
(* it produced returns that list unchanged, in the same order.              *)
C12_RankIdempotent ==
    ranAnomalies => Rank(anomalies) = anomalies

\* a list the ranking had to reorder, holding two distinct alerts that tie
\* on both sort keys
C12_Witness ==
    /\ ranAnomalies
    /\ anomalies # detected
    /\ \E k \in 1..(Len(anomalies) - 1) :
          /\ AnomalyCmp(anomalies[k], anomalies[k + 1]) = 0
          /\ anomalies[k] # anomalies[k + 1]


(* C13: projection is monotone in the raw value: for the minutes and the    *)
(* elapsed time of any player of the snapshot, a larger raw value never     *)
(* gets a smaller rounded projection, in getProj and in the hot-stat        *)
(* projection alike; two candidates of players at the same game progress    *)
(* are projected in the order of their raw values.                          *)
C13_ProjectionMonotone ==
    /\ \A i \in PlayerIdx : \A v \in 0..(MaxRaw - 1) :
          /\ getProj(v, currentPlayers[i], currentGames)
                <= getProj(v + 1, currentPlayers[i], currentGames)
          /\ PlayerHasGame(i) =>
                projRounded(v, PlayerGame(i)) <= projRounded(v + 1, PlayerGame(i))
    /\ ranAnomalies =>
          \A i, j \in PlayerIdx : \A a, b \in 1..Len(detected) :
              (/\ gameProgress48(currentPlayers[i], currentGames)
                     = gameProgress48(currentPlayers[j], currentGames)
               /\ detected[a].playerId = currentPlayers[i].id
               /\ detected[b].playerId = currentPlayers[j].id
               /\ \A k \in PlayerIdx : (SameId(k, i) => k = i) /\ (SameId(k, j) => k = j)
               /\ detected[a].value <= detected[b].value)
              => detected[a].projectedTotal <= detected[b].projectedTotal

\* two candidates of one player in a live game short of full time, the larger
\* raw value projected strictly higher
C13_Witness ==
    /\ ranAnomalies
    /\ \E a, b \in 1..Len(detected) :
          /\ detected[a].playerId = detected[b].playerId
          /\ detected[a].value < detected[b].value
          /\ detected[a].value < detected[a].projectedTotal
          /\ detected[a].projectedTotal < detected[b].projectedTotal

(* C14: for a LIVE game at or near minute 0 the elapsed time is raised to   *)
(* its floor before any division: every alert and every hot entry has a     *)
(* finite projected total, and every alert a finite pace (non-zero          *)
(* denominator).                                                            *)
C14_FiniteProjection ==
    /\ ranAnomalies =>
          \A a \in 1..Len(anomalies) :
              /\ anomalies[a].projectedTotal # NonFinite
              /\ anomalies[a].pace.den # 0
    /\ ranHot =>
          \A h \in 1..Len(hotStats) : hotStats[h].projected # NonFinite

\* an alert and a hot entry for a player of a LIVE game at elapsed minute 0
C14_Witness ==
    /\ ranAnomalies
    /\ ranHot
    /\ \E i \in PlayerIdx :
          /\ PlayerHasGame(i)
          /\ PlayerGame(i).status = "LIVE"
          /\ PlayerGame(i).elapsedMinutes = 0
          /\ \E a \in 1..Len(anomalies) : anomalies[a].playerId = currentPlayers[i].id
          /\ \E h \in 1..Len(hotStats) : hotStats[h].playerId = currentPlayers[i].id


\* the snapshot with every absent steals or blocks field set to 0
ZeroFilled(ps) ==
    [i \in 1..Len(ps) |->
        [ps[i] EXCEPT !.stl = IF @ = Undefined THEN 0 ELSE @,
                      !.blk = IF @ = Undefined THEN 0 ELSE @]]

(* C15: a record whose steals or blocks are missing is evaluated exactly as *)
(* the same record with those fields equal to 0: the candidates and the     *)
(* emitted alerts are identical.                                            *)
C15_MissingAsZero ==
    ranAnomalies =>
        /\ detected = DetectAll(ZeroFilled(currentPlayers), currentGames)
        /\ anomalies = Rank(DetectAll(ZeroFilled(currentPlayers), currentGames))

\* a record without steals and blocks, in the full regime, that gets an alert
C15_Witness ==
    /\ ranAnomalies
    /\ \E i \in PlayerIdx :
          /\ currentPlayers[i].stl = Undefined
          /\ currentPlayers[i].blk = Undefined
          /\ currentPlayers[i].minutes >= 15
          /\ \E a \in 1..Len(anomalies) : anomalies[a].playerId = currentPlayers[i].id


(* C16: the engine's output is uncapped: every (player, category) pair that *)
(* survives deduplication appears in the list the engine produces, however  *)
(* many there are: every candidate key of detectAnomalies has its alert,    *)
(* and every pair calculateHotStats collects is in the list it publishes.   *)
C16_Uncapped ==
    /\ ranAnomalies =>
          \A k \in 1..Len(detected) :
              \E a \in 1..Len(anomalies) : DedupKey(anomalies[a]) = DedupKey(detected[k])
    /\ ranHot =>
          LET hot == HotAll(currentPlayers, currentGames) IN
          \A k \in 1..Len(hot) : HotOf(hot[k].playerId, hot[k].statType) # {}


\* what the engine of the built App component returns for a snapshot
EngineResult(ps, gs) ==
    IF appVariant = "anomalies" THEN Rank(DetectAll(ps, gs)) ELSE HotRank(HotAll(ps, gs))

\* the list the App component shows
Published == IF appVariant = "anomalies" THEN anomalies ELSE hotStats

(* C17: the engine is deterministic and stateless: every invocation returns *)
(* the list its own snapshot determines, two invocations on the same        *)
(* snapshot return the same ordered list whatever was processed in          *)
(* between, and the published list is that of the last refresh served.      *)
C17_Stateless ==
    /\ \A k \in 1..Len(engineLog) :
          engineLog[k].result = EngineResult(engineLog[k].players, engineLog[k].games)
    /\ \A j, k \in 1..Len(engineLog) :
          (engineLog[j].players = engineLog[k].players
              /\ engineLog[j].games = engineLog[k].games)
          => engineLog[j].result = engineLog[k].result
    /\ engineLog # <<>> => Published = engineLog[Len(engineLog)].result

\* the same snapshot processed twice with another snapshot in between
C17_Witness ==
    \E j, k, l \in 1..Len(engineLog) :
        /\ j < k
        /\ k < l
        /\ engineLog[j].players = engineLog[l].players
        /\ engineLog[j].games = engineLog[l].games
        /\ engineLog[k].players # engineLog[j].players
        /\ engineLog[k].result # <<>>
        /\ engineLog[l].result # <<>>
        /\ engineLog[k].result # engineLog[l].result


(* C18: at most one refresh is in flight at any time, whatever the order of *)
(* triggers, re-renders and fetch completions.                              *)
C18_OneInFlight == Cardinality(pending) <= 1


\* the fetch that resolved in this step
JustDone == doneLog'[Len(doneLog')]

(* C19: the engine is invoked exactly once for each refresh whose fetch     *)
(* succeeds, in the step that fetch resolves, with that refresh's players   *)
(* and games; a refresh whose fetch reports an error invokes nothing and    *)
(* changes only the error message; no other step invokes the engine.        *)
C19_EngineOncePerSuccess ==
    [][ /\ Len(doneLog') = Len(doneLog) => engineLog' = engineLog
        /\ Len(doneLog') # Len(doneLog) =>
              IF JustDone.result.error = NullMsg
              THEN /\ engineLog' = Append(engineLog,
                         [refresh |-> JustDone.refresh,
                          players |-> JustDone.result.players,
                          games |-> sortGames(JustDone.result.games),
                          result |-> Published'])
                   /\ errorMsg' = errorMsg
              ELSE /\ engineLog' = engineLog
                   /\ errorMsg' = JustDone.result.error
                   /\ UNCHANGED <<games, players, anomalies, hotStats>>
      ]_vars

\* a failed and a successful refresh have both resolved, one engine call
C19_Witness ==
    /\ Len(engineLog) = 1
    /\ \E j, k \in 1..Len(doneLog) :
          /\ doneLog[j].result.error # NullMsg
          /\ doneLog[k].result.error = NullMsg
          /\ engineLog[1].refresh = doneLog[k].refresh
          /\ engineLog[1].result # <<>>


(* C20: across successive refreshes of one game whose real clock only       *)
(* advances, the elapsedMinutes delivered by fetchLiveNbaData never         *)
(* decreases, whichever source serves each refresh.                         *)
C20_ElapsedNeverDecreases ==
    \A k \in 1..(Len(served) - 1) :
        served[k].game.elapsedMinutes <= served[k + 1].game.elapsedMinutes


(* C21: every game delivered with status FINISHED has elapsedMinutes capped *)
(* at the 48-minute full-game duration and never negative, whichever source *)
(* and whichever period count (overtime included) produced it.              *)
C21_FinishedCappedAt48 ==
    \A k \in 1..Len(served) :
        served[k].game.status = "FINISHED" =>
            /\ served[k].game.elapsedMinutes <= 48
            /\ served[k].game.elapsedMinutes >= 0


(* C22: the specialist cutoffs apply independently of the low-minutes/full  *)
(* split: a player who passes the minutes filter (minutes >= 2) and reaches *)
(* the steals cutoff (>= 4), the blocks cutoff (>= 4) or the three-pointer  *)
(* cutoff (>= 5) has the corresponding alert, below 15 minutes as at or     *)
(* above 15.                                                                *)
C22_SpecialistAnyMinutes ==
    ranAnomalies =>
        \A i \in PlayerIdx :
            currentPlayers[i].minutes >= 2 =>
                /\ currentPlayers[i].stl >= 4 => AlertsOf(currentPlayers[i].id, "STL") # {}
                /\ currentPlayers[i].blk >= 4 => AlertsOf(currentPlayers[i].id, "BLK") # {}
                /\ currentPlayers[i].threePM >= 5 => AlertsOf(currentPlayers[i].id, "3PM") # {}

(* C23: in the low-minutes regime the three-pointer trigger is separate     *)
(* from the points trigger: a player with 2 <= minutes < 8 and at least 2   *)
(* three-pointers made has a 3PM alert whether or not the points-per-minute *)
(* trigger fired for that player.                                           *)
C23_LowMinutesThreesSeparate ==
    ranAnomalies =>
        \A i \in PlayerIdx :
            (/\ currentPlayers[i].minutes >= 2
             /\ currentPlayers[i].minutes < 8
             /\ currentPlayers[i].threePM >= 2)
            => AlertsOf(currentPlayers[i].id, "3PM") # {}


\* the candidates of a (playerId, statCategory) pair before deduplication
CandidatesFor(id, type) ==
    { k \in 1..Len(detected) : detected[k].playerId = id /\ detected[k].statType = type }

\* a record in the full regime whose id no other record carries
FullRegimeSingle(i) ==
    /\ currentPlayers[i].minutes >= 15
    /\ \A j \in PlayerIdx : SameId(i, j) => j = i

\* the layered rules of one category: at or above the cutoff exactly one
\* candidate of severity top with the raw value; below it at most one
\* candidate, of a lower severity
Layered(i, type, stat, cutoff, top) ==
    LET c == CandidatesFor(currentPlayers[i].id, type) IN
    /\ Cardinality(c) <= 1
    /\ stat >= cutoff =>
          /\ Cardinality(c) = 1
          /\ \A k \in c : detected[k].severity = top /\ detected[k].value = stat
    /\ stat < cutoff =>
          \A k \in c : getSeverityVal(detected[k].severity) < getSeverityVal(top)

(* C24: in the full regime (minutes >= 15), for each of PTS, AST and REB,   *)
(* reaching the absolute elite cutoff emits one alert of the highest        *)
(* severity tier (EXTREME) regardless of projection or rate, and the pace   *)
(* rule (lower severity) applies only below the cutoff, so at most one of   *)
(* the two fires per category.                                              *)
C24_EliteExtreme ==
    ranAnomalies =>
        \A i \in PlayerIdx :
            FullRegimeSingle(i) =>
                /\ Layered(i, "PTS", currentPlayers[i].pts, 30, "EXTREME")
                /\ Layered(i, "AST", currentPlayers[i].ast, 10, "EXTREME")
                /\ Layered(i, "REB", currentPlayers[i].reb, 12, "EXTREME")

(* C24 amended: as above, with the severity the cutoff rule of each         *)
(* category carries: EXTREME for PTS (>= 30), HIGH for AST (>= 10) and REB  *)
(* (>= 12); the pace rule is one tier lower (HIGH for PTS, MEDIUM for AST   *)
(* and REB) and fires only below the cutoff.                                *)
C24_EliteTopOfCategory ==
    ranAnomalies =>
        \A i \in PlayerIdx :
            FullRegimeSingle(i) =>
                /\ Layered(i, "PTS", currentPlayers[i].pts, 30, "EXTREME")
                /\ Layered(i, "AST", currentPlayers[i].ast, 10, "HIGH")
                /\ Layered(i, "REB", currentPlayers[i].reb, 12, "HIGH")

\* a full-regime record at the assists cutoff whose rate also meets the pace
\* rule, and a record below a cutoff that gets the pace alert
C24_Witness ==
    /\ ranAnomalies
    /\ \E i \in PlayerIdx :
          /\ FullRegimeSingle(i)
          /\ currentPlayers[i].ast >= 10
          /\ 100 * currentPlayers[i].ast > 35 * currentPlayers[i].minutes
          /\ \E k \in CandidatesFor(currentPlayers[i].id, "AST") : detected[k].severity = "HIGH"
          /\ currentPlayers[i].pts < 30
          /\ \E k \in CandidatesFor(currentPlayers[i].id, "PTS") : detected[k].severity = "HIGH"


\* round(rawValue / progress), progress = clamp(elapsed, floor, 48) / 48
ClampedProjection(raw, elapsed, floor) == Round(raw * 48, Min(Max(elapsed, floor), 48))

\* a record whose id no other record carries, in a game that is not FINISHED
SingleInOpenGame(i) ==
    /\ \A j \in PlayerIdx : SameId(i, j) => j = i
    /\ PlayerHasGame(i)
    /\ PlayerGame(i).status # "FINISHED"

(* C25: for a game that is not FINISHED every alert's projectedTotal equals *)
(* round(rawValue / progress), progress = clamp(elapsedMinutes, floor, 48)  *)
(* / 48 with the engine's floor (5 in detectAnomalies, 1 in                 *)
(* calculateHotStats); so it is never below rawValue and never above        *)
(* round(rawValue * 48 / floor).                                            *)
C25_ClampedProjection ==
    \A i \in PlayerIdx :
        SingleInOpenGame(i) =>
            /\ ranAnomalies =>
                  \A a \in 1..Len(anomalies) :
                      anomalies[a].playerId = currentPlayers[i].id =>
                          /\ anomalies[a].projectedTotal
                                = ClampedProjection(anomalies[a].value,
                                                    PlayerGame(i).elapsedMinutes, 5)
                          /\ anomalies[a].projectedTotal >= anomalies[a].value
                          /\ anomalies[a].projectedTotal <= Round(anomalies[a].value * 48, 5)
            /\ ranHot =>
                  \A h \in 1..Len(hotStats) :
                      hotStats[h].playerId = currentPlayers[i].id =>
                          /\ hotStats[h].projected
                                = ClampedProjection(hotStats[h].current,
                                                    PlayerGame(i).elapsedMinutes, 1)
                          /\ hotStats[h].projected >= hotStats[h].current
                          /\ hotStats[h].projected <= Round(hotStats[h].current * 48, 1)


(* C26: every refresh that set loading to true eventually resolves, and the *)
(* step in which it resolves sets loading to false, whether the fetch       *)
(* returned data or an error; so loading never stays true for ever          *)
(* (every fetch promise settles).                                           *)
C26_LoadingReleased ==
    /\ [][Len(doneLog') # Len(doneLog) => ~loading']_vars
    /\ \A r \in 1..MaxRefresh :
          (r \in pending) ~> (\E k \in 1..Len(doneLog) : doneLog[k].refresh = r)
    /\ loading ~> ~loading

\* a refresh that failed and one that succeeded have resolved, loading is false
C26_Witness ==
    /\ ~loading
    /\ pending = {}
    /\ \E j, k \in 1..Len(doneLog) :
          /\ doneLog[j].result.error # NullMsg
          /\ doneLog[k].result.error = NullMsg
          /\ doneLog[j].refresh < doneLog[k].refresh

(* C27: a refresh whose fetch reports an error leaves games, players and    *)
(* the alert list as the last successful refresh published them and changes *)
(* only errorMsg and loading; a successful refresh replaces all three and   *)
(* leaves errorMsg cleared.                                                 *)
C27_ErrorKeepsData ==
    [][ Len(doneLog') # Len(doneLog) =>
          IF JustDone.result.error # NullMsg
          THEN /\ UNCHANGED <<games, players, anomalies, hotStats>>
               /\ errorMsg' = JustDone.result.error
               /\ ~loading'
          ELSE /\ games' = sortGames(JustDone.result.games)
               /\ players' = JustDone.result.players
               /\ Published' = EngineResult(players', games')
               /\ errorMsg' = NullMsg
      ]_vars


\* every resource of the session is held
ResourcesHeld ==
    /\ refs.stream # 0
    /\ refs.inputCtx # 0
    /\ refs.outputCtx # 0
    /\ refs.processor # 0

(* C28: whenever isActive is true the session's resources are held          *)
(* (microphone stream, input and output audio contexts, processor are       *)
(* non-null), under every interleaving of startSession, stopSession and the *)
(* connection callbacks; and after stopSession nothing makes the assistant  *)
(* active again until startSession is called anew.                          *)
C28_ActiveHoldsResources ==
    /\ isActive => ResourcesHeld
    /\ stopSeen => ~isActive

(* C29: within one voice session, audio chunks are scheduled for playback   *)
(* in the order their messages were received, whatever the order in which   *)
(* the onmessage handlers resume from decoding.                             *)
C29_ScheduledInArrivalOrder ==
    \A j, k \in 1..Len(scheduled) :
        (j < k /\ scheduled[j].session = scheduled[k].session)
        => scheduled[j].msg < scheduled[k].msg

(* C30: within one voice session scheduled chunks never overlap and are     *)
(* never scheduled in the past: each start time is >= the audio clock at    *)
(* scheduling and >= the end of the chunk scheduled before it; and          *)
(* nextStartTime only goes down when stopSession resets it to 0.            *)
C30_NoOverlapNoPast ==
    /\ [](\A k \in 1..Len(scheduled) :
             /\ scheduled[k].start >= scheduled[k].now
             /\ \A j \in 1..(k - 1) :
                   scheduled[j].session = scheduled[k].session =>
                       scheduled[k].start >= scheduled[j].start + scheduled[j].duration)
    /\ [][ \/ nextStartTimeRef' >= nextStartTimeRef
           \/ nextStartTimeRef' = 0 /\ refs' = NoRefs /\ stopSeen'
        ]_vars

\* two chunks of one session scheduled, the second after the clock has
\* passed the end of the first
C30_Witness ==
    \E j, k \in 1..Len(scheduled) :
        /\ j < k
        /\ scheduled[j].session = scheduled[k].session
        /\ scheduled[k].now > scheduled[j].start + scheduled[j].duration
        /\ scheduled[k].start = scheduled[k].now

====
